---- MODULE Spec2Model ----
(***************************************************************************)
(* Model of the 17 Cent Club quota application (src/app_single.py).        *)
(*                                                                         *)
(* The specifications of this module:                                      *)
(*   QuotaSpec   the pure function current_quota applied to bounded inputs *)
(*   Spec        the Streamlit application: every action is one script run *)
(*               (the start-up code of lines 35-130 followed by the        *)
(*               handler of the widget the user operated)                  *)
(*   IngestSpec  Spec restricted to uploads and newly added tournaments    *)
(*   SessionSpec a browser session on an existing document, with every     *)
(*               page of the application                                   *)
(***************************************************************************)
EXTENDS Integers, Sequences, FiniteSets, TLC

\* ------------------------------------------------------------------------
\* Bounds of the model
\* ------------------------------------------------------------------------
\* longest rounds list handed to current_quota (the window is 9)
MaxRounds == 10
\* scores are whole numbers 0..MaxScore
MaxScore == 1

\* ------------------------------------------------------------------------
\* Program constants
\* ------------------------------------------------------------------------
\* rounds[-9:]
WINDOW == 9
\* sorted(recent, reverse=True)[:6]
BEST == 6
\* sum(best6) / 6
DIVISOR == 6
\* number_input("Initial Quota", min_value=0, max_value=60, value=18)
MIN_INITIAL_QUOTA == 0
MAX_INITIAL_QUOTA == 60
DEFAULT_INITIAL_QUOTA == 18

\* rows of one uploaded CSV file
MaxRows == 2
\* handler runs that write the document (Apply Upload, Save Tournament,
\* Save Results, Save Player, Delete Player, Save PIN, Restore) in one
\* behaviour
MaxWrites == 2

\* uploaded player: "age": 65
DEFAULT_AGE == 65

Scores == 0..MaxScore
InitialQuotas == {DEFAULT_INITIAL_QUOTA, MAX_INITIAL_QUOTA}

VARIABLES
    q_rounds,    \* current_quota: argument rounds (list of scores, list order)
    q_initial,   \* current_quota: argument initial_quota
    q_quota,     \* current_quota: returned value, NoQuota before the call
    q_pc,        \* "idle" | "input" | "done"
    players,     \* data["players"]: list of records in dict (insertion) order
    tournaments, \* data["tournaments"]: function from tournament id to record
    admin_pin,   \* data["settings"]["admin_pin"] as saved by the last run
    is_admin,    \* st.session_state.is_admin
    upload_rows, \* st.session_state.upload_rows: [set |-> FALSE] is None
    row_choices, \* st.session_state.row_choices, one choice per staged row
    next_uuid,   \* number of uuid4() player ids drawn so far
    notice,      \* what the last run reported (st.error / st.success / st.info)
    uploaded,    \* header row of the file put into the uploader in the last run
    writes,      \* document-writing handler runs so far (bounded by MaxWrites)
    del_id       \* value of the "Delete player (danger)" selectbox

qvars == <<q_rounds, q_initial, q_quota, q_pc>>

avars == <<players, tournaments, admin_pin, is_admin, upload_rows, row_choices,
           next_uuid, notice, uploaded, writes, del_id>>

vars == <<qvars, avars>>

NoQuota == "pending"

\* ------------------------------------------------------------------------
\* Python list and number helpers
\* ------------------------------------------------------------------------
Min2(a, b) == IF a < b THEN a ELSE b
Max2(a, b) == IF a > b THEN a ELSE b
Abs(x) == IF x < 0 THEN -x ELSE x

RECURSIVE SumSeq(_)
\* sum(list)
SumSeq(s) == IF s = <<>> THEN 0 ELSE Head(s) + SumSeq(Tail(s))

\* list[:n]
FirstN(s, n) == SubSeq(s, 1, Min2(n, Len(s)))

\* a slip: list[:n] where list[-n:] is meant
LastN_head(s, n) == SubSeq(s, 1, Min2(n, Len(s)))

\* list[-n:]
LastN(s, n) == SubSeq(s, Max2(1, Len(s) - n + 1), Len(s))

RECURSIVE InsertDesc(_, _)
\* x placed after every element >= x of the descending list s
InsertDesc(x, s) ==
    IF s = <<>> THEN <<x>>
    ELSE IF Head(s) >= x THEN <<Head(s)>> \o InsertDesc(x, Tail(s))
         ELSE <<x>> \o s

RECURSIVE InsertAsc(_, _)
InsertAsc(x, s) ==
    IF s = <<>> THEN <<x>>
    ELSE IF Head(s) <= x THEN <<Head(s)>> \o InsertAsc(x, Tail(s))
         ELSE <<x>> \o s

RECURSIVE SortedAsc(_)
\* a slip: sorted(list) without reverse=True
SortedAsc(s) ==
    IF s = <<>> THEN <<>>
    ELSE InsertAsc(s[Len(s)], SortedAsc(SubSeq(s, 1, Len(s) - 1)))

RECURSIVE SortedDesc(_)
\* sorted(list, reverse=True)
SortedDesc(s) ==
    IF s = <<>> THEN <<>>
    ELSE InsertDesc(s[Len(s)], SortedDesc(SubSeq(s, 1, Len(s) - 1)))

\* a slip: math.ceil(num / den) where round is meant
CeilDiv(num, den) ==
    LET q == num \div den
    IN  IF num % den = 0 THEN q ELSE q + 1

\* Python 3 round(num / den) for den > 0: nearest integer, ties to even
PyRound(num, den) ==
    LET q == num \div den
        r == num % den
    IN  IF 2 * r < den THEN q
        ELSE IF 2 * r > den THEN q + 1
        ELSE IF q % 2 = 0 THEN q ELSE q + 1

\* ------------------------------------------------------------------------
\* current_quota (lines 146-152)
\* ------------------------------------------------------------------------
\* a slip: the mean over the selected scores, sum(best6) / len(best6)
current_quota_mean(rounds, initial_quota) ==
    IF rounds = <<>> THEN PyRound(initial_quota, 1)
    ELSE LET recent == LastN(rounds, WINDOW)
             best6 == FirstN(SortedDesc(recent), BEST)
         IN  IF best6 # <<>> THEN PyRound(SumSeq(best6), Len(best6))
             ELSE PyRound(initial_quota, 1)

\* a slip: the default quota 18 for a player without rounds
current_quota_default(rounds, initial_quota) ==
    IF rounds = <<>> THEN PyRound(DEFAULT_INITIAL_QUOTA, 1)
    ELSE LET recent == LastN(rounds, WINDOW)
             best6 == FirstN(SortedDesc(recent), BEST)
         IN  IF best6 # <<>> THEN PyRound(SumSeq(best6), DIVISOR)
             ELSE PyRound(DEFAULT_INITIAL_QUOTA, 1)

current_quota(rounds, initial_quota) ==
    IF rounds = <<>> THEN PyRound(initial_quota, 1)
    ELSE LET recent == LastN(rounds, WINDOW)
             best6 == FirstN(SortedDesc(recent), BEST)
         IN  IF best6 # <<>> THEN PyRound(SumSeq(best6), DIVISOR)
             ELSE PyRound(initial_quota, 1)

\* ------------------------------------------------------------------------
\* Strings. The model's texts are the cells below; str.strip, str.lower,
\* str.title and the date conversion are tabulated on them.
\* ------------------------------------------------------------------------
ADMIN_USER == "Admin"
ADMIN_PASS == "pgapro"
DEFAULT_ADMIN_PIN == "1215"

\* data rows of the uploaded files: Tournament_Name, Player_Name and the
\* Round_1..Round_3 cells (the second row is the first one's tournament and
\* player again, in another spelling and with other scores)
RowCells ==
    { <<"Open", "john smith", <<"8", "12", "7">> >>,
      <<"open ", "john smith", <<"15", "18", "14">> >>,
      <<"Open", "mary jones", <<"8", "12", "7">> >> }
\* Player_Name cells
PNameCells == {c[2] : c \in RowCells}
\* Tournament_Date cells (MM/DD/YYYY; anything else is no date)
DateCells == {"03/15/2024"}
\* st.date_input values of Save Tournament, as strftime("%Y-%m-%d")
IsoDates == {"2024-03-15"}
\* st.text_input values of Save Tournament
TNameInputs == {"Open", "OPEN", ""}
\* R1, R2, R3 number inputs of Save Results
ResultInputs == {<<8, 12, 7>>, <<20, 20, 20>>}
\* credentials typed into the login forms
UserInputs == {ADMIN_USER, "admin"}
PassInputs == {ADMIN_PASS, ""}
PinInputs == {DEFAULT_ADMIN_PIN, "0000", ""}

\* str.strip()
Strip(s) ==
    CASE s = "open " -> "open"
      [] s = " " -> ""
      [] OTHER -> s

\* str.lower()
Lower(s) ==
    CASE s = "Open" -> "open"
      [] s = "OPEN" -> "open"
      [] s = "John Smith" -> "john smith"
      [] s = "Mary Jones" -> "mary jones"
      [] s = "Bob" -> "bob"
      [] s = "Alice" -> "alice"
      [] s = "Tournament_Name" -> "tournament_name"
      [] s = "Player_Name" -> "player_name"
      [] s = "Round_1" -> "round_1"
      [] s = "Round_2" -> "round_2"
      [] s = "Round_3" -> "round_3"
      [] s = "Tournament_Date" -> "tournament_date"
      [] OTHER -> s

\* str.title()
Title(s) ==
    CASE s = "john smith" -> "John Smith"
      [] s = "mary jones" -> "Mary Jones"
      [] OTHER -> s

\* _mmddyyyy_to_iso (lines 471-478)
mmddyyyy_to_iso(s) ==
    LET t == Strip(s)
    IN  CASE t = "" -> ""
          [] t = "03/15/2024" -> "2024-03-15"
          [] OTHER -> ""

\* float() accepts the text
IsFloatText(x) == x \in {"0", "7", "8", "12", "14", "15", "18"}

\* float(x) for a text float() accepts
FloatOf(x) ==
    CASE x = "0" -> 0
      [] x = "7" -> 7
      [] x = "8" -> 8
      [] x = "12" -> 12
      [] x = "14" -> 14
      [] x = "15" -> 15
      [] x = "18" -> 18

\* float(x or 0) raises ValueError (line 563)
FloatRaises(x) == x # "" /\ ~IsFloatText(x)

\* float(x or 0) (line 563)
float_or_0(x) == IF x = "" THEN 0 ELSE FloatOf(x)

\* rapidfuzz fuzz.token_sort_ratio(raw, name) without preprocessing:
\* 100 * 2 * LCS / (len + len) of the two texts with their tokens sorted
\* ("john smith" and "John Smith" share 8 of 10 characters: 80.0)
token_sort_ratio(raw, name) ==
    CASE raw = name -> 100
      [] raw = "john smith" /\ name = "John Smith" -> 80
      [] raw = "john smith" /\ name = "Mary Jones" -> 30
      [] raw = "mary jones" /\ name = "John Smith" -> 40
      [] raw = "mary jones" /\ name = "Mary Jones" -> 80
      [] OTHER -> 0

\* suggestions at or above this similarity are offered (line 514)
SUGGEST_MIN == 70
\* process.extract(..., limit=3)
SUGGEST_LIMIT == 3

\* ------------------------------------------------------------------------
\* The document: players, tournaments, results
\* ------------------------------------------------------------------------
\* a player id drawn by str(uuid4())[:8]: the n-th draw
UuidPid(n) == <<"uuid", n>>

\* str(pid).strip().lower() as _normalize_data compares it with player names:
\* eight hexadecimal digits are the name of no player
PidText(pid) == IF pid[1] = "uuid" THEN "#hex" ELSE Lower(Strip(pid[2]))

PlayerIds(ps) == {ps[i].id : i \in DOMAIN ps}

\* data["players"][pid]
PlayerOf(ps, pid) == ps[CHOOSE i \in DOMAIN ps : ps[i].id = pid]

\* [p.get("name", "") for p in existing_players.values()] (line 484)
all_player_names(ps) == [i \in DOMAIN ps |-> ps[i].name]

\* dict keys of a results mapping, kept as a list of <<pid, scores>> pairs
ResultIds(res) == {res[i][1] : i \in DOMAIN res}

\* results[pid]
ResultOf(res, pid) == res[CHOOSE i \in DOMAIN res : res[i][1] = pid][2]

\* results[pid] = scores: an existing key keeps its place, a new one is last
SetResult(res, pid, scores) ==
    IF pid \in ResultIds(res)
    THEN [i \in DOMAIN res |-> IF res[i][1] = pid THEN <<pid, scores>> ELSE res[i]]
    ELSE Append(res, <<pid, scores>>)

\* tournaments[key] = record
SetTournament(ts, key, rec) ==
    [k \in DOMAIN ts \cup {key} |-> IF k = key THEN rec ELSE ts[k]]

NoTournaments == [k \in {} |-> 0]

\* ------------------------------------------------------------------------
\* Start-up code of every script run (lines 35-130): the document is loaded,
\* the PIN is set to DEFAULT_ADMIN_PIN, _normalize_data runs, all is saved
\* ------------------------------------------------------------------------
\* v["name"].strip().lower() == text for some player (key of name_to_pid)
InNameToPid(ps, text) == \E i \in DOMAIN ps : Lower(Strip(ps[i].name)) = text

\* name_to_pid[text]: the dict comprehension keeps the last player of a name
name_to_pid(ps, text) ==
    LET last == CHOOSE i \in DOMAIN ps :
                    /\ Lower(Strip(ps[i].name)) = text
                    /\ \A j \in DOMAIN ps : Lower(Strip(ps[j].name)) = text => j <= i
    IN  ps[last].id

\* (vals + [0.0, 0.0, 0.0])[:3]
Pad3(vals) == FirstN(vals \o <<0, 0, 0>>, 3)

RECURSIVE FixResults(_, _, _)
\* lines 117-124: fixed[pid] = ... for k, rr in res.items()
FixResults(ps, res, fixed) ==
    IF res = <<>> THEN fixed
    ELSE LET k == Head(res)[1]
             pid == IF InNameToPid(ps, PidText(k)) THEN name_to_pid(ps, PidText(k)) ELSE k
         IN  FixResults(ps, Tail(res), SetResult(fixed, pid, Pad3(Head(res)[2])))

\* _normalize_data, step 3 (lines 111-125), on one tournament's results
normalize_results(ps, res) ==
    IF \E i \in DOMAIN res : InNameToPid(ps, PidText(res[i][1]))
    THEN FixResults(ps, res, <<>>)
    ELSE res

\* _normalize_data on a document whose players and tournaments are dicts
normalize_data(ps, ts) ==
    [k \in DOMAIN ts |-> [ts[k] EXCEPT !.results = normalize_results(ps, ts[k].results)]]

\* data["tournaments"] as the handlers of this run see it
data_tournaments == normalize_data(players, tournaments)

\* data["players"] as the handlers of this run see it
data_players == players

\* data["settings"]["admin_pin"] as the handlers of this run see it (line 38)
data_admin_pin == DEFAULT_ADMIN_PIN

\* ------------------------------------------------------------------------
\* What a run reports
\* ------------------------------------------------------------------------
Notice(kind) ==
    [kind |-> kind, applied |-> 0, created_players |-> 0, created_tournaments |-> 0]

\* no file was put into the uploader in this run
NoFile == [present |-> FALSE, columns |-> {}]

NoUpload == [set |-> FALSE, rows |-> <<>>]

\* the empty option of a selectbox
NoSelection == <<>>

\* the selectboxes of the review list as they are first rendered (line 551):
\* default_choice is always one of all_opts
default_choices(rows) == [i \in DOMAIN rows |-> rows[i].default_choice]

\* a run that does not render the review list of the Upload page: Streamlit
\* drops the state of the widgets row_sel_i, and line 548 takes their
\* initial values when the list is rendered again
UploadPageHidden == row_choices' = default_choices(upload_rows.rows)

\* a run that does not render the Players page: the "Delete player"
\* selectbox is back at its empty option when the page is rendered again
PlayersPageHidden == del_id' = NoSelection

\* a run that ends without touching the document beyond the start-up code
StartupOnly ==
    /\ players' = data_players
    /\ tournaments' = data_tournaments
    /\ admin_pin' = data_admin_pin

\* state after the first script run on a fresh installation
AppStart ==
    /\ players = <<>>
    /\ tournaments = NoTournaments
    /\ admin_pin = DEFAULT_ADMIN_PIN
    /\ is_admin = FALSE
    /\ upload_rows = NoUpload
    /\ row_choices = <<>>
    /\ next_uuid = 0
    /\ notice = Notice("none")
    /\ uploaded = NoFile
    /\ writes = 0
    /\ del_id = NoSelection

\* ------------------------------------------------------------------------
\* Login and logout (lines 180-181, 200-225, 651-690)
\* ------------------------------------------------------------------------
\* lines 208-216 and 673-681
CheckUserPass(u, p) ==
    LET effective_user == IF ADMIN_USER # "" THEN ADMIN_USER ELSE "admin"
        ok == u = effective_user /\ p = ADMIN_PASS
    IN  /\ is_admin' = (is_admin \/ ok)
        /\ notice' = Notice(IF ok THEN "logged_in" ELSE "invalid_credentials")

\* lines 220-225 and 685-690
CheckPin(pin_in) ==
    LET saved_pin == data_admin_pin
        ok == saved_pin # "" /\ pin_in = saved_pin
    IN  /\ is_admin' = (is_admin \/ ok)
        /\ notice' = Notice(IF ok THEN "logged_in_pin" ELSE "invalid_pin")

\* "Log in" with user and password in the Public Board's login expander,
\* which is shown to everyone
LoginUserPass(u, p) ==
    /\ CheckUserPass(u, p)
    /\ uploaded' = NoFile
    /\ StartupOnly
    /\ UploadPageHidden
    /\ PlayersPageHidden
    /\ UNCHANGED <<upload_rows, next_uuid, writes, qvars>>

\* "Log in" with the PIN in the Public Board's login expander
LoginPin(pin_in) ==
    /\ CheckPin(pin_in)
    /\ uploaded' = NoFile
    /\ StartupOnly
    /\ UploadPageHidden
    /\ PlayersPageHidden
    /\ UNCHANGED <<upload_rows, next_uuid, writes, qvars>>

\* "Log in" on the Admin (Login) page, whose form is shown while logged out
AdminLoginUserPass(u, p) ==
    /\ ~is_admin
    /\ CheckUserPass(u, p)
    /\ uploaded' = NoFile
    /\ StartupOnly
    /\ UploadPageHidden
    /\ PlayersPageHidden
    /\ UNCHANGED <<upload_rows, next_uuid, writes, qvars>>

\* "Log in with PIN" on the Admin (Login) page
AdminLoginPin(pin_in) ==
    /\ ~is_admin
    /\ CheckPin(pin_in)
    /\ uploaded' = NoFile
    /\ StartupOnly
    /\ UploadPageHidden
    /\ PlayersPageHidden
    /\ UNCHANGED <<upload_rows, next_uuid, writes, qvars>>

\* "Log out" in the sidebar, "Log out now" on the Admin (Login) page
Logout ==
    /\ is_admin
    /\ is_admin' = FALSE
    /\ notice' = Notice("none")
    /\ uploaded' = NoFile
    /\ StartupOnly
    /\ UploadPageHidden
    /\ PlayersPageHidden
    /\ UNCHANGED <<upload_rows, next_uuid, writes, qvars>>

\* ------------------------------------------------------------------------
\* Upload Results (CSV), step 1: parse, validate, stage (lines 483-533)
\* ------------------------------------------------------------------------
RequiredHeaders == {"Tournament_Name", "Player_Name", "Round_1", "Round_2", "Round_3"}

\* header rows of the uploaded files
HeaderSets ==
    { RequiredHeaders,
      RequiredHeaders \cup {"Tournament_Date"},
      RequiredHeaders \ {"Round_3"},
      RequiredHeaders \ {"Player_Name"} }

\* data rows of a file with the given header row
CsvRows(headers) ==
    { [ Tournament_Name |-> c[1], Player_Name |-> c[2], Rounds |-> c[3],
        Tournament_Date |-> d ] :
      c \in RowCells,
      d \in IF "Tournament_Date" \in headers THEN DateCells ELSE {""} }

CsvFiles ==
    UNION { { [columns |-> h, rows |-> rs] :
                rs \in UNION { [1..n -> CsvRows(h)] : n \in 0..MaxRows } } :
            h \in HeaderSets }

\* cols = {c.strip().lower(): c for c in dfu.columns} (line 500)
ColKeys(headers) == {Lower(Strip(c)) : c \in headers}

req == {"tournament_name", "player_name", "round_1", "round_2", "round_3"}

\* missing = [r for r in req if r not in cols] (line 502)
MissingColumns(headers) == req \ ColKeys(headers)

RECURSIVE RankInsert(_, _, _, _)
\* index i placed behind every index of ranked that scores at least as high
RankInsert(raw, names, i, ranked) ==
    IF ranked = <<>> THEN <<i>>
    ELSE IF token_sort_ratio(raw, names[Head(ranked)]) >= token_sort_ratio(raw, names[i])
         THEN <<Head(ranked)>> \o RankInsert(raw, names, i, Tail(ranked))
         ELSE <<i>> \o ranked

RECURSIVE Ranked(_, _, _)
\* the indices 1..n of names by similarity to raw, best first, ties in list order
Ranked(raw, names, n) ==
    IF n = 0 THEN <<>> ELSE RankInsert(raw, names, n, Ranked(raw, names, n - 1))

\* process.extract(pname, all_player_names, scorer=token_sort_ratio, limit=3)
\* filtered to the names scoring >= 70 (lines 513-514)
Similar(raw, names) ==
    LET top == FirstN(Ranked(raw, names, Len(names)), SUGGEST_LIMIT)
        good == SelectSeq(top, LAMBDA i : token_sort_ratio(raw, names[i]) >= SUGGEST_MIN)
    IN  [j \in DOMAIN good |-> names[good[j]]]

\* f"Match: {name}" and f"Add NEW player: {pname}"
MatchChoice(name) == [kind |-> "Match", name |-> name]
AddNewChoice(pname) == [kind |-> "AddNew", name |-> pname]

\* one staged row (lines 508-530)
StageRow(row, cols, names) ==
    LET pname == Strip(row.Player_Name)
        tname == Strip(row.Tournament_Name)
        tdate == IF "tournament_date" \in cols
                 THEN mmddyyyy_to_iso(row.Tournament_Date) ELSE ""
        similar == Similar(pname, names)
    IN  [ tournament_name |-> tname,
          tournament_date |-> tdate,
          player_name |-> pname,
          rounds |-> [i \in 1..3 |-> Strip(row.Rounds[i])],
          suggestions |-> similar,
          default_choice |-> IF similar # <<>> THEN MatchChoice(similar[1])
                             ELSE AddNewChoice(pname) ]

\* the user puts a file into the uploader of the Upload page
UploadFile(f) ==
    /\ is_admin
    /\ writes < MaxWrites
    /\ uploaded' = [present |-> TRUE, columns |-> f.columns]
    /\ IF upload_rows.set
       THEN \* line 492: a staged upload is pending, the file is not read
            /\ notice' = Notice(IF upload_rows.rows # <<>> THEN "review" ELSE "none")
            /\ UNCHANGED <<upload_rows, row_choices>>
       ELSE IF MissingColumns(f.columns) # {}
       THEN /\ notice' = Notice("missing_columns")
            /\ UNCHANGED <<upload_rows, row_choices>>
       ELSE LET cols == ColKeys(f.columns)
                names == all_player_names(data_players)
                rows == [i \in DOMAIN f.rows |-> StageRow(f.rows[i], cols, names)]
            IN  /\ upload_rows' = [set |-> TRUE, rows |-> rows]
                /\ row_choices' = [i \in DOMAIN rows |-> rows[i].default_choice]
                /\ notice' = Notice(IF rows # <<>> THEN "review" ELSE "none")
    /\ StartupOnly
    /\ PlayersPageHidden
    /\ UNCHANGED <<is_admin, next_uuid, writes, qvars>>

\* all_opts of a staged row (lines 540-546)
all_opts(r, names) ==
    {MatchChoice(r.suggestions[i]) : i \in DOMAIN r.suggestions}
        \cup {MatchChoice(names[i]) : i \in DOMAIN names}
        \cup {AddNewChoice(r.player_name)}

\* the user picks an option in the selectbox of staged row i (line 548)
ChooseRow(i, opt) ==
    /\ is_admin
    /\ upload_rows.set
    /\ i \in DOMAIN upload_rows.rows
    /\ opt \in all_opts(upload_rows.rows[i], all_player_names(data_players))
    /\ opt # row_choices[i]
    /\ row_choices' = [row_choices EXCEPT ![i] = opt]
    /\ notice' = Notice("review")
    /\ uploaded' = NoFile
    /\ StartupOnly
    /\ PlayersPageHidden
    /\ UNCHANGED <<is_admin, upload_rows, next_uuid, writes, qvars>>

\* ------------------------------------------------------------------------
\* Upload Results (CSV), step 2: Apply Upload (lines 556-599)
\* ------------------------------------------------------------------------
\* a slip: the key built from the name as written, without lower()
TournamentKey_as_written(tname, tdate) ==
    IF tdate # "" THEN <<tname, tdate>> ELSE <<tname>>

\* key = f"{tname.lower()}|{tdate}" if tdate else tname.lower() (line 568);
\* the text "a|b" is the pair <<a, b>>, a text without date the tuple <<a>>
TournamentKey(tname, tdate) ==
    IF tdate # "" THEN <<Lower(tname), tdate>> ELSE <<Lower(tname)>>

\* lines 577-580: some player's lowered name is match_name
HasMatch(ps, match_name) == \E i \in DOMAIN ps : Lower(ps[i].name) = match_name

\* lines 577-580: the first player, in dict order, whose lowered name is match_name
FindMatch(ps, match_name) ==
    LET first == CHOOSE i \in DOMAIN ps :
                     /\ Lower(ps[i].name) = match_name
                     /\ \A j \in DOMAIN ps : Lower(ps[j].name) = match_name => i <= j
    IN  ps[first].id

\* lines 582-588: the player record of an "Add NEW player" row
NewPlayer(new_pid, pname) ==
    [ id |-> new_pid,
      name |-> Title(pname),
      age |-> DEFAULT_AGE,
      initial_quota |-> DEFAULT_INITIAL_QUOTA,
      rounds |-> <<>> ]

\* one pass of the loop body (lines 561-594) over the accumulated document
ApplyRow(acc, r, choice) ==
    LET rounds == [i \in 1..3 |-> float_or_0(r.rounds[i])]
        key == TournamentKey(r.tournament_name, r.tournament_date)
        fresh == key \notin DOMAIN acc.tournaments
        ts1 == IF fresh
               THEN SetTournament(acc.tournaments, key,
                        [name |-> r.tournament_name, date |-> r.tournament_date,
                         results |-> <<>>])
               ELSE acc.tournaments
        is_match == choice.kind = "Match"
        match_name == Lower(Strip(choice.name))
        found == is_match /\ HasMatch(acc.players, match_name)
        new_pid == UuidPid(acc.next_uuid + 1)
        ps1 == IF is_match THEN acc.players
               ELSE Append(acc.players, NewPlayer(new_pid, r.player_name))
        has_pid == ~is_match \/ found
        pid == IF is_match THEN FindMatch(acc.players, match_name) ELSE new_pid
        ts2 == IF has_pid
               THEN [ts1 EXCEPT ![key].results = SetResult(@, pid, rounds)]
               ELSE ts1
    IN  [ players |-> ps1,
          tournaments |-> ts2,
          next_uuid |-> IF is_match THEN acc.next_uuid ELSE acc.next_uuid + 1,
          applied |-> IF has_pid THEN acc.applied + 1 ELSE acc.applied,
          created_players |-> IF is_match THEN acc.created_players
                              ELSE acc.created_players + 1,
          created_tournaments |-> IF fresh THEN acc.created_tournaments + 1
                                  ELSE acc.created_tournaments ]

RECURSIVE ApplyRows(_, _, _, _)
\* for i, r in enumerate(rows) (line 560), from row i on
ApplyRows(acc, rows, choices, i) ==
    IF i > Len(rows) THEN acc
    ELSE ApplyRows(ApplyRow(acc, rows[i], choices[i]), rows, choices, i + 1)

\* line 563 raises ValueError at some row: the run ends before save_data
ApplyRaises(rows) ==
    \E i \in DOMAIN rows : \E j \in 1..3 : FloatRaises(rows[i].rounds[j])

\* the "Apply Upload (Step 2)" button
ApplyUpload ==
    /\ is_admin
    /\ upload_rows.set
    /\ upload_rows.rows # <<>>
    /\ writes < MaxWrites
    /\ uploaded' = NoFile
    /\ IF ApplyRaises(upload_rows.rows)
       THEN /\ notice' = Notice("exception")
            /\ StartupOnly
            /\ UNCHANGED <<upload_rows, row_choices, next_uuid, writes>>
       ELSE LET start == [ players |-> data_players,
                           tournaments |-> data_tournaments,
                           next_uuid |-> next_uuid,
                           applied |-> 0,
                           created_players |-> 0,
                           created_tournaments |-> 0 ]
                end == ApplyRows(start, upload_rows.rows, row_choices, 1)
            IN  /\ players' = end.players
                /\ tournaments' = end.tournaments
                /\ next_uuid' = end.next_uuid
                /\ admin_pin' = data_admin_pin
                /\ notice' = [ kind |-> "applied",
                               applied |-> end.applied,
                               created_players |-> end.created_players,
                               created_tournaments |-> end.created_tournaments ]
                /\ upload_rows' = NoUpload
                /\ row_choices' = <<>>
                /\ writes' = writes + 1
    /\ PlayersPageHidden
    /\ UNCHANGED <<is_admin, qvars>>

\* ------------------------------------------------------------------------
\* Tournaments page (lines 398-430)
\* ------------------------------------------------------------------------
\* the "Save Tournament" button; t_edit is NoSelection or an existing id
SaveTournament(name_in, t_date, t_edit) ==
    /\ is_admin
    /\ writes < MaxWrites
    /\ t_edit \in DOMAIN data_tournaments \cup {NoSelection}
    /\ uploaded' = NoFile
    /\ LET t_name == Strip(name_in)
           tid == IF t_edit # NoSelection THEN t_edit
                  ELSE <<Lower(Strip(t_name)), t_date>>
       IN  IF t_name = ""
           THEN /\ notice' = Notice("name_required")
                /\ tournaments' = data_tournaments
                /\ UNCHANGED writes
           ELSE /\ tournaments' =
                     IF tid \notin DOMAIN data_tournaments
                     THEN SetTournament(data_tournaments, tid,
                              [name |-> t_name, date |-> t_date, results |-> <<>>])
                     ELSE [data_tournaments EXCEPT ![tid].name = t_name,
                                                   ![tid].date = t_date]
                /\ notice' = Notice("saved_tournament")
                /\ writes' = writes + 1
    /\ players' = data_players
    /\ admin_pin' = data_admin_pin
    /\ UploadPageHidden
    /\ PlayersPageHidden
    /\ UNCHANGED <<is_admin, upload_rows, next_uuid, qvars>>

\* the "Save Results" button; NoSelection is the empty option of either box
SaveResults(tid_sel, pid_sel, scores) ==
    /\ is_admin
    /\ writes < MaxWrites
    /\ tid_sel \in DOMAIN data_tournaments \cup {NoSelection}
    /\ pid_sel \in PlayerIds(data_players) \cup {NoSelection}
    /\ uploaded' = NoFile
    /\ IF tid_sel # NoSelection /\ pid_sel # NoSelection
       THEN /\ tournaments' = [data_tournaments EXCEPT
                                  ![tid_sel].results = SetResult(@, pid_sel, scores)]
            /\ notice' = Notice("results_saved")
            /\ writes' = writes + 1
       ELSE /\ tournaments' = data_tournaments
            /\ notice' = Notice("select_both")
            /\ UNCHANGED writes
    /\ players' = data_players
    /\ admin_pin' = data_admin_pin
    /\ UploadPageHidden
    /\ PlayersPageHidden
    /\ UNCHANGED <<is_admin, upload_rows, next_uuid, qvars>>

\* ------------------------------------------------------------------------
\* Players page (lines 337-378)
\* ------------------------------------------------------------------------
\* str.replace(" ", "_") (line 352)
Underscored(s) ==
    CASE s = "john smith" -> "john_smith"
      [] s = "mary jones" -> "mary_jones"
      [] OTHER -> s

\* a player id made from the name
NamePid(text) == <<"id", text>>

RECURSIVE FreePid(_, _, _)
\* lines 353-357: base, else the first of base_2, base_3, ... not in use
FreePid(ps, base, i) ==
    LET pid == NamePid(IF i = 1 THEN base ELSE base \o "_" \o ToString(i))
    IN  IF pid \in PlayerIds(ps) THEN FreePid(ps, base, i + 1) ELSE pid

\* the "Save Player" button; pid_edit is NoSelection or an existing id
SavePlayer(name_in, age, init_q, pid_edit) ==
    /\ is_admin
    /\ writes < MaxWrites
    /\ pid_edit \in PlayerIds(data_players) \cup {NoSelection}
    /\ uploaded' = NoFile
    /\ LET name == Strip(name_in)
           pid == IF pid_edit # NoSelection THEN pid_edit
                  ELSE FreePid(data_players, Underscored(Lower(Strip(name))), 1)
           known == pid \in PlayerIds(data_players)
           old == PlayerOf(data_players, pid)
           rec == [ id |-> pid,
                    name |-> name,
                    age |-> age,
                    initial_quota |-> init_q,
                    rounds |-> IF known THEN old.rounds ELSE <<>>,
                    temp_bonus |-> IF known /\ "temp_bonus" \in DOMAIN old
                                   THEN old.temp_bonus ELSE 0 ]
       IN  IF name = ""
           THEN /\ notice' = Notice("name_required")
                /\ players' = data_players
                /\ UNCHANGED <<writes, del_id>>
           ELSE /\ players' =
                     IF known
                     THEN [i \in DOMAIN data_players |->
                              IF data_players[i].id = pid THEN rec ELSE data_players[i]]
                     ELSE Append(data_players, rec)
                /\ notice' = Notice("saved_player")
                /\ writes' = writes + 1
                \* a new player changes the options of the delete selectbox,
                \* which is then rendered as a new widget
                /\ del_id' = IF known THEN del_id ELSE NoSelection
    /\ tournaments' = data_tournaments
    /\ admin_pin' = data_admin_pin
    /\ UploadPageHidden
    /\ UNCHANGED <<is_admin, upload_rows, next_uuid, qvars>>

\* the user picks a player in the "Delete player (danger)" selectbox
\* (line 369): a script run without a handler
SelectDelete(pid) ==
    /\ is_admin
    /\ pid \in PlayerIds(data_players)
    /\ pid # del_id
    /\ del_id' = pid
    /\ notice' = Notice("none")
    /\ uploaded' = NoFile
    /\ StartupOnly
    /\ UploadPageHidden
    /\ UNCHANGED <<is_admin, upload_rows, next_uuid, writes, qvars>>

\* data["players"].pop(del_id, None)
PopPlayer(ps, pid) == SelectSeq(ps, LAMBDA p : p.id # pid)

\* t.get("results", {}).pop(del_id, None) for every tournament (lines 375-376)
PopResults(ts, pid) ==
    [k \in DOMAIN ts |->
        [ts[k] EXCEPT !.results = SelectSeq(@, LAMBDA e : e[1] # pid)]]

\* the "Delete Selected Player" button
DeletePlayer ==
    /\ is_admin
    /\ writes < MaxWrites
    /\ uploaded' = NoFile
    /\ IF del_id # NoSelection
       THEN /\ players' = PopPlayer(data_players, del_id)
            /\ tournaments' = PopResults(data_tournaments, del_id)
            /\ notice' = Notice("deleted")
            /\ writes' = writes + 1
       ELSE /\ players' = data_players
            /\ tournaments' = data_tournaments
            /\ notice' = Notice("none")
            /\ UNCHANGED writes
    /\ admin_pin' = data_admin_pin
    /\ del_id' = NoSelection
    /\ UploadPageHidden
    /\ UNCHANGED <<is_admin, upload_rows, next_uuid, qvars>>

\* ------------------------------------------------------------------------
\* Backup/Restore page (lines 634-647)
\* ------------------------------------------------------------------------
\* the user puts a JSON file into the uploader of the Backup/Restore page;
\* backup.valid: the file has the keys "players" and "tournaments"
Restore(backup) ==
    /\ is_admin
    /\ writes < MaxWrites
    /\ uploaded' = NoFile
    /\ IF backup.valid
       THEN /\ players' = backup.players
            /\ tournaments' = backup.tournaments
            /\ admin_pin' = backup.admin_pin
            /\ notice' = Notice("restored")
            /\ writes' = writes + 1
       ELSE /\ notice' = Notice("invalid_backup")
            /\ StartupOnly
            /\ UNCHANGED writes
    /\ UploadPageHidden
    /\ PlayersPageHidden
    /\ UNCHANGED <<is_admin, upload_rows, next_uuid, qvars>>

\* ------------------------------------------------------------------------
\* Admin (Login) page while logged in: Admin PIN settings (lines 656-663)
\* ------------------------------------------------------------------------
\* a slip: the PIN settings shown to everyone
SavePin_unguarded(new_pin) ==
    /\ writes < MaxWrites
    /\ admin_pin' = Strip(new_pin)
    /\ players' = data_players
    /\ tournaments' = data_tournaments
    /\ notice' = Notice("pin_saved")
    /\ uploaded' = NoFile
    /\ writes' = writes + 1
    /\ UploadPageHidden
    /\ PlayersPageHidden
    /\ UNCHANGED <<is_admin, upload_rows, next_uuid, qvars>>

\* the "Save PIN" button
SavePin(new_pin) ==
    /\ is_admin
    /\ writes < MaxWrites
    /\ admin_pin' = Strip(new_pin)
    /\ players' = data_players
    /\ tournaments' = data_tournaments
    /\ notice' = Notice("pin_saved")
    /\ uploaded' = NoFile
    /\ writes' = writes + 1
    /\ UploadPageHidden
    /\ PlayersPageHidden
    /\ UNCHANGED <<is_admin, upload_rows, next_uuid, qvars>>

\* ------------------------------------------------------------------------
\* Pages that only read: the quota shown for a player
\* ------------------------------------------------------------------------
\* "Current Quota": current_quota(p["rounds"], p["initial_quota"])
\* (Public Board 237, Player Lookup 274, Players 330, Reports 615)
DisplayedQuota(p) == current_quota(p.rounds, p.initial_quota)

\* ------------------------------------------------------------------------
\* The application
\* ------------------------------------------------------------------------
QuotaIdle ==
    /\ q_rounds = <<>>
    /\ q_initial = DEFAULT_INITIAL_QUOTA
    /\ q_quota = NoQuota
    /\ q_pc = "idle"

Init == AppStart /\ QuotaIdle

Next ==
    \/ \E u \in UserInputs, p \in PassInputs : LoginUserPass(u, p)
    \/ \E pin_in \in PinInputs : LoginPin(pin_in)
    \/ \E u \in UserInputs, p \in PassInputs : AdminLoginUserPass(u, p)
    \/ \E pin_in \in PinInputs : AdminLoginPin(pin_in)
    \/ Logout
    \/ \E f \in CsvFiles : UploadFile(f)
    \/ \E i \in 1..MaxRows, k \in {"Match", "AddNew"}, n \in PNameCells \cup {Title(c) : c \in PNameCells} :
           ChooseRow(i, [kind |-> k, name |-> n])
    \/ ApplyUpload
    \/ \E name_in \in TNameInputs, t_date \in IsoDates,
          t_edit \in DOMAIN tournaments \cup {NoSelection} :
           SaveTournament(name_in, t_date, t_edit)
    \/ \E tid_sel \in DOMAIN tournaments \cup {NoSelection},
          pid_sel \in PlayerIds(players) \cup {NoSelection},
          scores \in ResultInputs :
           SaveResults(tid_sel, pid_sel, scores)

Spec == Init /\ [][Next]_vars

\* Ingestion alone: the admin logs in on the Admin (Login) page, uploads
\* files and adds tournaments; no record is edited or deleted by hand
IngestNext ==
    \/ \E u \in UserInputs, p \in PassInputs : AdminLoginUserPass(u, p)
    \/ \E f \in CsvFiles : UploadFile(f)
    \/ \E i \in 1..MaxRows, k \in {"Match", "AddNew"}, n \in PNameCells \cup {Title(c) : c \in PNameCells} :
           ChooseRow(i, [kind |-> k, name |-> n])
    \/ ApplyUpload
    \/ \E name_in \in TNameInputs, t_date \in IsoDates :
           SaveTournament(name_in, t_date, NoSelection)

IngestSpec == Init /\ [][IngestNext]_vars

\* ------------------------------------------------------------------------
\* SessionSpec: a new browser session on a document that earlier sessions
\* left in golf_data.json; every page of the application
\* ------------------------------------------------------------------------
\* the document after Save Player "Bob", Save Player "Alice", Save
\* Tournament "Open" and Save Results 8, 12, 7 for Bob
RosterPlayers ==
    << [id |-> NamePid("bob"), name |-> "Bob", age |-> DEFAULT_AGE,
        initial_quota |-> DEFAULT_INITIAL_QUOTA, rounds |-> <<>>, temp_bonus |-> 0],
       [id |-> NamePid("alice"), name |-> "Alice", age |-> DEFAULT_AGE,
        initial_quota |-> DEFAULT_INITIAL_QUOTA, rounds |-> <<>>, temp_bonus |-> 0] >>

RosterTournaments ==
    SetTournament(NoTournaments, <<"open", "2024-03-15">>,
        [name |-> "Open", date |-> "2024-03-15",
         results |-> << <<NamePid("bob"), <<8, 12, 7>> >> >>])

\* documents the session starts on
SessionDocs ==
    { [players |-> <<>>, tournaments |-> NoTournaments],
      [players |-> RosterPlayers, tournaments |-> RosterTournaments] }

\* data rows of the files uploaded in the session: a row of Bob, a row with
\* a blank tournament name, a row without player name, a row whose first
\* score is no number and whose second score is empty
SessionCells ==
    { <<"Open", "Bob", <<"8", "12", "7">> >>,
      <<" ", "Bob", <<"8", "12", "7">> >>,
      <<"Open", "", <<"8", "12", "7">> >>,
      <<"Open", "Bob", <<"abc", "", "7">> >> }

SessionFiles ==
    { [columns |-> RequiredHeaders, rows |-> rs] :
        rs \in UNION { [1..n -> { [ Tournament_Name |-> c[1], Player_Name |-> c[2],
                                    Rounds |-> c[3], Tournament_Date |-> "" ] :
                                  c \in SessionCells }] : n \in 1..MaxRows } }

\* files put into the uploader of the Backup/Restore page: a backup of an
\* empty document whose settings hold another PIN, and a JSON file without
\* the key "players"
Backups ==
    { [valid |-> TRUE, players |-> <<>>, tournaments |-> NoTournaments,
       admin_pin |-> "0000"],
      [valid |-> FALSE, players |-> <<>>, tournaments |-> NoTournaments,
       admin_pin |-> ""] }

\* names typed into the Players page
PlayerNameInputs == {"Bob", ""}

SessionInit ==
    /\ QuotaIdle
    /\ \E d \in SessionDocs :
           /\ players = d.players
           /\ tournaments = d.tournaments
    /\ admin_pin = DEFAULT_ADMIN_PIN
    /\ is_admin = FALSE
    /\ upload_rows = NoUpload
    /\ row_choices = <<>>
    /\ next_uuid = 0
    /\ notice = Notice("none")
    /\ uploaded = NoFile
    /\ writes = 0
    /\ del_id = NoSelection

SessionNext ==
    \/ \E u \in UserInputs, p \in PassInputs : LoginUserPass(u, p)
    \/ \E pin_in \in PinInputs : LoginPin(pin_in)
    \/ \E u \in UserInputs, p \in PassInputs : AdminLoginUserPass(u, p)
    \/ \E pin_in \in PinInputs : AdminLoginPin(pin_in)
    \/ Logout
    \/ \E f \in SessionFiles : UploadFile(f)
    \/ \E i \in 1..MaxRows, k \in {"Match", "AddNew"}, n \in PlayerNameInputs :
           ChooseRow(i, [kind |-> k, name |-> n])
    \/ ApplyUpload
    \/ \E t_date \in IsoDates, t_edit \in DOMAIN tournaments \cup {NoSelection} :
           SaveTournament("Open", t_date, t_edit)
    \/ \E tid_sel \in DOMAIN tournaments \cup {NoSelection},
          pid_sel \in PlayerIds(players) \cup {NoSelection} :
           SaveResults(tid_sel, pid_sel, <<20, 20, 20>>)
    \/ \E name_in \in PlayerNameInputs, pid_edit \in PlayerIds(players) \cup {NoSelection} :
           SavePlayer(name_in, DEFAULT_AGE, DEFAULT_INITIAL_QUOTA, pid_edit)
    \/ \E pid \in PlayerIds(players) : SelectDelete(pid)
    \/ DeletePlayer
    \/ \E new_pin \in PinInputs \ {DEFAULT_ADMIN_PIN, ""} : SavePin(new_pin)
    \/ \E backup \in Backups : Restore(backup)

SessionSpec == SessionInit /\ [][SessionNext]_vars

\* ------------------------------------------------------------------------
\* QuotaSpec: current_quota on every rounds list of at most MaxRounds scores
\* ------------------------------------------------------------------------
RoundLists == UNION {[1..n -> Scores] : n \in 0..MaxRounds}

\* initial_quota is varied for the player without rounds, whose quota it is
QuotaInit ==
    /\ q_rounds \in RoundLists
    /\ q_initial \in (IF q_rounds = <<>> THEN InitialQuotas ELSE {DEFAULT_INITIAL_QUOTA})
    /\ q_quota = NoQuota
    /\ q_pc = "input"
    /\ AppStart

CallCurrentQuota ==
    /\ q_pc = "input"
    /\ q_quota' = current_quota(q_rounds, q_initial)
    /\ q_pc' = "done"
    /\ UNCHANGED <<q_rounds, q_initial>>
    /\ UNCHANGED avars

QuotaNext == CallCurrentQuota

QuotaSpec == QuotaInit /\ [][QuotaNext]_vars

\* ------------------------------------------------------------------------
\* Properties of current_quota (QuotaSpec)
\* ------------------------------------------------------------------------
QuotaDone == q_pc = "done"

\* the scores the quota is taken from: the best 6 of the last 9 list entries
SelectedScores == FirstN(SortedDesc(LastN(q_rounds, WINDOW)), BEST)

\* rounds with the score of entry i changed to s
WithScore(rounds, i, s) == [rounds EXCEPT ![i] = s]

\* C2 as claimed: for a non-empty round list the quota is the mean over the
\* number of selected scores (sum / n for n selected scores), rounded to a
\* neighbouring integer.
C2_MeanOverSelectedCount ==
    (QuotaDone /\ q_rounds # <<>>) =>
        LET n == Len(SelectedScores)
            sum == SumSeq(SelectedScores)
        IN  (q_quota - 1) * n < sum /\ sum < (q_quota + 1) * n

\* C2 as amended: for a non-empty round list the sum of the selected scores
\* is divided by 6 whatever their number: the quota is within one half of
\* sum / 6.
C2_DividesBySix ==
    (QuotaDone /\ q_rounds # <<>>) =>
        2 * Abs(DIVISOR * q_quota - SumSeq(SelectedScores)) <= DIVISOR

\* three rounds of score 1 (mean 1): the quota is 3 / 6 rounded, 0
C2_Witness ==
    /\ QuotaDone
    /\ q_rounds = <<1, 1, 1>>
    /\ q_quota = 0

\* C3 as claimed: the quota is the ceiling of the mean of the n selected
\* scores, the smallest integer q with q * n >= sum.
C3_CeilingOfMean ==
    (QuotaDone /\ q_rounds # <<>>) =>
        LET n == Len(SelectedScores)
            sum == SumSeq(SelectedScores)
        IN  q_quota * n >= sum /\ (q_quota - 1) * n < sum

\* C3 as amended: the quota is sum / 6 rounded to the nearest integer, a tie
\* (sum / 6 = k + 1/2) going to the even neighbour; it is rounded down
\* whenever the fraction is below one half.
C3_RoundsToNearestEven ==
    (QuotaDone /\ q_rounds # <<>>) =>
        LET sum == SumSeq(SelectedScores)
            floor == sum \div DIVISOR
            rest == sum % DIVISOR
        IN  /\ 2 * rest < DIVISOR => q_quota = floor
            /\ 2 * rest > DIVISOR => q_quota = floor + 1
            /\ 2 * rest = DIVISOR => q_quota \in {floor, floor + 1} /\ q_quota % 2 = 0

\* six selected scores whose mean has a fraction below one half (as
\* [18,18,18,18,18,13] has): the quota is below the mean, not its ceiling
C3_Witness ==
    /\ QuotaDone
    /\ Len(q_rounds) = BEST
    /\ SumSeq(q_rounds) % DIVISOR = 1
    /\ DIVISOR * q_quota < SumSeq(q_rounds)

\* the dates the rounds of a list of n entries can carry: recorded in date
\* order (entry i has date i) or newest first (entry i has date n + 1 - i)
DateOrders(n) == { [i \in 1..n |-> i], [i \in 1..n |-> n + 1 - i] }

\* the entries among the 9 most recent by date
MostRecentByDate(dates) ==
    {i \in DOMAIN dates : Cardinality({j \in DOMAIN dates : dates[j] > dates[i]}) < WINDOW}

\* C4 as claimed: whatever the order in which the rounds were recorded, a
\* round that is not among the 9 most recent by date has no influence on the
\* quota.
C4_WindowByDate ==
    QuotaDone =>
        \A dates \in DateOrders(Len(q_rounds)) :
            \A i \in DOMAIN q_rounds \ MostRecentByDate(dates) :
                \A s \in Scores :
                    current_quota(WithScore(q_rounds, i, s), q_initial) = q_quota

\* C4 as amended: the window is the last 9 entries of the rounds list; an
\* entry before them has no influence on the quota (these are the 9 most
\* recent by date only when the list is in date order).
C4_WindowByListOrder ==
    QuotaDone =>
        \A i \in DOMAIN q_rounds :
            i <= Len(q_rounds) - WINDOW =>
                \A s \in Scores \ {q_rounds[i]} :
                    current_quota(WithScore(q_rounds, i, s), q_initial) = q_quota

\* ten rounds, the first with the highest score and nine of score 0 after
\* it: the quota is 0
C4_Witness ==
    /\ QuotaDone
    /\ Len(q_rounds) = WINDOW + 1
    /\ q_rounds[1] = MaxScore
    /\ \A i \in 2..Len(q_rounds) : q_rounds[i] = 0
    /\ q_quota = 0

\* the last 9 entries of the list, as positions
WindowPositions == {i \in DOMAIN q_rounds : i > Len(q_rounds) - WINDOW}

\* C5: within the window the quota uses the 6 highest scores: an entry with
\* at least 6 other window entries scoring no less does not affect the
\* quota when its score is lowered, and when the 6 highest scores are all v
\* the quota is v.
C5_BestSixOfWindow ==
    QuotaDone =>
        /\ \A i \in WindowPositions :
               Cardinality({j \in WindowPositions \ {i} : q_rounds[j] >= q_rounds[i]}) >= BEST =>
                   \A s \in Scores :
                       s < q_rounds[i] =>
                           current_quota(WithScore(q_rounds, i, s), q_initial) = q_quota
        /\ \A v \in Scores :
               ( /\ \A j \in WindowPositions : q_rounds[j] <= v
                 /\ Cardinality({j \in WindowPositions : q_rounds[j] = v}) >= BEST )
                   => q_quota = v

\* seven rounds, six of the highest score and one of 0 (as
\* [20,20,20,20,20,20,1]): the quota is the highest score
C5_Witness ==
    /\ QuotaDone
    /\ Len(q_rounds) = BEST + 1
    /\ Cardinality({i \in DOMAIN q_rounds : q_rounds[i] = MaxScore}) = BEST
    /\ Cardinality({i \in DOMAIN q_rounds : q_rounds[i] = 0}) = 1
    /\ q_quota = MaxScore

\* C6: for a player with zero rounds current_quota returns initial_quota.
C6_NoRoundsInitialQuota ==
    (QuotaDone /\ q_rounds = <<>>) => q_quota = q_initial

\* no rounds and the highest initial quota the Players page accepts
C6_Witness ==
    /\ QuotaDone
    /\ q_rounds = <<>>
    /\ q_initial = MAX_INITIAL_QUOTA
    /\ q_quota = MAX_INITIAL_QUOTA

\* ------------------------------------------------------------------------
\* Properties of the application (Spec, IngestSpec)
\* ------------------------------------------------------------------------
\* a step of the "Apply Upload" button that ran to its end (line 598 is the
\* only place that sets upload_rows to None)
ApplyStep == upload_rows.set /\ ~upload_rows'.set

RECURSIVE FlatRoundsOf(_, _, _)
FlatRoundsOf(ts, keys, pid) ==
    IF keys = {} THEN <<>>
    ELSE LET k == CHOOSE x \in keys : TRUE
             own == IF pid \in ResultIds(ts[k].results)
                    THEN ResultOf(ts[k].results, pid) ELSE <<>>
         IN  own \o FlatRoundsOf(ts, keys \ {k}, pid)

\* the player's rounds obtained by flattening all tournaments' results
FlatRounds(ts, pid) == FlatRoundsOf(ts, DOMAIN ts, pid)

\* C1: the quota shown for a player is the quota computed from the rounds
\* obtained by flattening the player's score lists across all tournaments'
\* results.
C1_QuotaFromResults ==
    \A i \in DOMAIN players :
        DisplayedQuota(players[i]) =
            current_quota(FlatRounds(tournaments, players[i].id), players[i].initial_quota)

\* the parsed scores of a staged row
RowScores(r) == [i \in 1..3 |-> float_or_0(r.rounds[i])]

\* the player ids the rows of a choice refer to after the Apply step: the
\* matched player, or the players the step created under the row's name
TargetsOf(choice, pname) ==
    IF choice.kind = "Match"
    THEN {players[i].id : i \in {j \in DOMAIN players :
                                    Lower(players[j].name) = Lower(Strip(choice.name))}}
    ELSE {players'[i].id : i \in {j \in DOMAIN players' :
                                     /\ players'[j].id \notin PlayerIds(players)
                                     /\ players'[j].name = Title(pname)}}

\* C7: when two rows of one applied batch refer to the same tournament and
\* player (and carry the same choice), the tournament's results hold, after
\* Apply, exactly one entry for that player, with the scores of the last
\* such row.
C7_LastRowWins ==
    [][ ApplyStep =>
          LET rows == upload_rows.rows
              same(i, j) ==
                  /\ TournamentKey(rows[i].tournament_name, rows[i].tournament_date)
                       = TournamentKey(rows[j].tournament_name, rows[j].tournament_date)
                  /\ rows[i].player_name = rows[j].player_name
                  /\ row_choices[i] = row_choices[j]
          IN  \A i, j \in DOMAIN rows :
                  (i < j /\ same(i, j) /\ \A l \in DOMAIN rows : l > j => ~same(i, l)) =>
                      LET key == TournamentKey(rows[j].tournament_name,
                                               rows[j].tournament_date)
                          res == tournaments'[key].results
                          holders == TargetsOf(row_choices[j], rows[j].player_name)
                                         \cap ResultIds(res)
                      IN  /\ Cardinality(holders) = 1
                          /\ \A pid \in holders : ResultOf(res, pid) = RowScores(rows[j])
      ]_vars

\* C8: rows with the same normalized tournament name and the same date land
\* in one single tournament record: no two records share normalized name
\* and date, and an applied batch keeps every record and every result entry
\* that was there before it.
C8_OneRecordPerNameAndDate ==
    [][ /\ \A k1, k2 \in DOMAIN tournaments' :
               ( /\ Lower(Strip(tournaments'[k1].name)) = Lower(Strip(tournaments'[k2].name))
                 /\ tournaments'[k1].date = tournaments'[k2].date ) => k1 = k2
        /\ ApplyStep =>
               \A k \in DOMAIN tournaments :
                   /\ k \in DOMAIN tournaments'
                   /\ ResultIds(tournaments[k].results)
                          \subseteq ResultIds(tournaments'[k].results)
      ]_vars

\* a second batch of one row, under a new player, has created no tournament:
\* the single record holds that entry and an entry of the batch before
C8_Witness ==
    /\ writes = 2
    /\ notice.kind = "applied"
    /\ notice.applied = 1
    /\ notice.created_players = 1
    /\ notice.created_tournaments = 0
    /\ Cardinality(DOMAIN tournaments) = 1
    /\ \A k \in DOMAIN tournaments : Len(tournaments[k].results) = 2

\* C9: an applied batch creates exactly one player per distinct raw name
\* resolved as "add new": the number of players added equals the number of
\* distinct such names.
C9_OnePlayerPerNewName ==
    [][ ApplyStep =>
          Len(players') - Len(players) =
              Cardinality({upload_rows.rows[i].player_name :
                              i \in {j \in DOMAIN upload_rows.rows :
                                        row_choices[j].kind = "AddNew"}})
      ]_vars

\* C10: a run in which a file lacking a required column is put into the
\* uploader reports the missing columns, leaves no rows staged and leaves
\* players and tournaments as they were.
C10_MissingColumnsRejected ==
    [][ (uploaded'.present /\ MissingColumns(uploaded'.columns) # {}) =>
            /\ notice'.kind = "missing_columns"
            /\ ~upload_rows'.set
            /\ players' = players
            /\ tournaments' = tournaments
      ]_vars

\* ------------------------------------------------------------------------
\* Properties of a session (SessionSpec)
\* ------------------------------------------------------------------------
\* a staged row whose tournament name or player name is empty
EmptyNamed(r) == r.tournament_name = "" \/ r.player_name = ""

\* the staged rows that carry both names
NamedRows == {i \in DOMAIN upload_rows.rows : ~EmptyNamed(upload_rows.rows[i])}

\* the tournament id of a staged row
RowKey(r) == TournamentKey(r.tournament_name, r.tournament_date)

\* C11: a batch row whose tournament name or player name is empty is skipped
\* when the batch is applied: the tournaments and the players the batch
\* creates and the rows it counts as applied all come from rows that carry
\* both names.
C11_EmptyNamesSkipped ==
    [][ ApplyStep =>
          /\ \A k \in DOMAIN tournaments' \ DOMAIN tournaments :
                 \E i \in NamedRows : RowKey(upload_rows.rows[i]) = k
          /\ Len(players') - Len(players)
                 <= Cardinality({i \in NamedRows : row_choices[i].kind = "AddNew"})
          /\ notice'.applied <= Cardinality(NamedRows)
      ]_vars

\* the "Apply Upload" button was pressed in the step: only its handler
\* reports a batch summary or ends in the exception of line 563
ApplyPressed == upload_rows.set /\ notice'.kind \in {"applied", "exception"}

\* the scores of a staged row with every empty or unparseable field as 0.0
ScoresOrZero(r) ==
    [i \in 1..3 |-> IF IsFloatText(r.rounds[i]) THEN FloatOf(r.rounds[i]) ELSE 0]

\* C12: when a batch is applied, whatever its score fields hold, the batch
\* is persisted and the review is closed, and every row with both names
\* that adds a new player has its scores, with 0.0 for every empty or
\* unparseable field, in the results of its tournament.
C12_BadScoresStoredAsZero ==
    [][ ApplyPressed =>
          /\ notice'.kind = "applied"
          /\ ~upload_rows'.set
          /\ \A i \in NamedRows :
                 row_choices[i].kind = "AddNew" =>
                     LET r == upload_rows.rows[i]
                     IN  /\ RowKey(r) \in DOMAIN tournaments'
                         /\ \E j \in DOMAIN tournaments'[RowKey(r)].results :
                                LET e == tournaments'[RowKey(r)].results[j]
                                IN  /\ e[1] \notin PlayerIds(players)
                                    /\ e[2] = ScoresOrZero(r)
      ]_vars

\* C13: deleting a player through the admin delete removes the player
\* record and the player's id from the results of every tournament, and
\* leaves all other player records and all other players' result entries
\* as they were.
C13_DeleteCascades ==
    [][ notice'.kind = "deleted" =>
          /\ del_id \notin PlayerIds(players')
          /\ \A k \in DOMAIN tournaments' :
                 del_id \notin ResultIds(tournaments'[k].results)
          /\ players' = SelectSeq(players, LAMBDA p : p.id # del_id)
          /\ DOMAIN tournaments' = DOMAIN tournaments
          /\ \A k \in DOMAIN tournaments :
                 /\ ResultIds(tournaments'[k].results)
                        = ResultIds(tournaments[k].results) \ {del_id}
                 /\ \A pid \in ResultIds(tournaments'[k].results) :
                        ResultOf(tournaments'[k].results, pid)
                            = ResultOf(tournaments[k].results, pid)
      ]_vars

\* C14: a raw name is resolved automatically to an existing player only
\* when its best similarity is at or above 90: a row whose best suggestion
\* scores below 90 and whose choice is the one the review list started
\* with does not get its scores written under the suggested player.
C14_AutoMatchAtNinety ==
    [][ ApplyStep =>
          \A i \in DOMAIN upload_rows.rows :
              LET r == upload_rows.rows[i]
                  res == tournaments'[RowKey(r)].results
              IN  ( /\ r.suggestions # <<>>
                    /\ token_sort_ratio(r.player_name, r.suggestions[1]) < 90
                    /\ row_choices[i] = r.default_choice ) =>
                      \A j \in DOMAIN players :
                          players[j].name = r.suggestions[1] =>
                              ~ ( /\ players[j].id \in ResultIds(res)
                                  /\ ResultOf(res, players[j].id) = RowScores(r) )
      ]_vars

\* C15: every row of an applied batch is accounted for in the batch
\* summary, whose counts are the rows applied, the players created and the
\* tournaments created: every staged row is counted as applied, and every
\* tournament record the batch creates holds the scores of a row.
C15_EveryRowAccounted ==
    [][ ApplyStep =>
          /\ notice'.applied = Len(upload_rows.rows)
          /\ \A k \in DOMAIN tournaments' \ DOMAIN tournaments :
                 tournaments'[k].results # <<>>
      ]_vars

\* C16: the PIN saved with "Save PIN" is the stored admin PIN until it is
\* changed again: the stored PIN changes only in a run that saves a PIN or
\* restores a backup, and a PIN login succeeds exactly with the stored PIN
\* (which is not empty).
C16_SavedPinStays ==
    [][ /\ admin_pin' # admin_pin => notice'.kind \in {"pin_saved", "restored"}
        /\ \A pin_in \in PinInputs :
               (LoginPin(pin_in) \/ AdminLoginPin(pin_in)) =>
                   ( (notice'.kind = "logged_in_pin")
                       <=> (admin_pin # "" /\ pin_in = admin_pin) )
      ]_vars

\* the handler of the run was a login with the configured user and
\* password, or with a PIN that is not empty and equals the stored PIN
ValidLogin ==
    \/ /\ notice'.kind = "logged_in"
       /\ \E u \in UserInputs, p \in PassInputs :
              /\ LoginUserPass(u, p) \/ AdminLoginUserPass(u, p)
              /\ u = ADMIN_USER
              /\ p = ADMIN_PASS
    \/ /\ notice'.kind = "logged_in_pin"
       /\ \E pin_in \in PinInputs :
              /\ LoginPin(pin_in) \/ AdminLoginPin(pin_in)
              /\ pin_in # ""
              /\ pin_in = admin_pin

\* what a run reports when no handler of an admin page ran in it
LoggedOutNotices == {"none", "logged_in", "logged_in_pin", "invalid_credentials", "invalid_pin"}

\* C17: is_admin starts false; a run that starts logged out executes none
\* of Save Player, Delete Player, Save Tournament, Save Results, Apply
\* Upload, Restore and Save PIN: it leaves players, tournaments and PIN as
\* the start-up code leaves them, and the staged upload and the ids drawn
\* as they were; is_admin becomes true only through a valid login and
\* becomes false exactly through a logout.
C17_AdminOnly ==
    /\ ~is_admin
    /\ [][ /\ ~is_admin =>
                 /\ players' = data_players
                 /\ tournaments' = data_tournaments
                 /\ admin_pin' = data_admin_pin
                 /\ upload_rows' = upload_rows
                 /\ next_uuid' = next_uuid
                 /\ writes' = writes
                 /\ notice'.kind \in LoggedOutNotices
           /\ (~is_admin /\ is_admin') => ValidLogin
           /\ (is_admin /\ ~is_admin') => Logout
           /\ Logout => ~is_admin'
         ]_vars

\* logged out again with an upload still staged for review
C17_Witness ==
    /\ ~is_admin
    /\ upload_rows.set
    /\ upload_rows.rows # <<>>
    /\ writes > 0
====
